---- MODULE Spec2Model ----
(***************************************************************************)
(* State-machine model of the concurrent listing harvester of              *)
(* src/src/scraper.py: scrape_listings_async_runner and the coroutines it  *)
(* drives (get_usd_jpy_rate_async, fetch_page_async, monitored_fetch) and  *)
(* the extraction it applies to every page (parse_search_results,          *)
(* extract_price).                                                         *)
(*                                                                         *)
(* One harvest is modelled.  The runner's position is pc; every page       *)
(* fetch has its own position fetch[i].  A coroutine runs without          *)
(* interruption between two awaits, so one action is the code between two  *)
(* suspension points.  The politeness delay and the GET that follows it    *)
(* are both awaited while holding the limiter slot and touch no shared     *)
(* state in between, so they are one position ("held").                    *)
(***************************************************************************)
EXTENDS Integers, Sequences, FiniteSets, TLC

\* ---------------------------------------------------------------- bounds
MaxPages == 7          \* largest max_pages explored (6 fan-out fetches > 5 slots)
MaxFailedPages == 2    \* at most this many fan-out pages end without a 200

\* ------------------------------------------------------ program constants
SemCapacity == 5       \* asyncio.Semaphore(5)
FallbackRate == 150    \* return 150.0

\* ------------------------------------------------------------ input sets
\* What one page request can end in: an HTTP status, or an exception raised
\* by the sleep/GET/read (timeout, connection error).
Outcomes == {"200", "404", "503", "exception"}

\* What the rate request can end in.  "ok" carries a quote; the others are
\* the failures: an exception raised by session.get (network, timeout), a
\* status other than 200, a body that is not JSON (response.json() raises)
\* and a JSON body without rates/JPY (KeyError or TypeError).
RateFailures == {"exception", "status", "malformed", "missing"}
RateQuotes == {145, 0, -3}

Pages == 1..MaxPages

\* ------------------------------------------------------------ log entries
Entry(sev, stage, a, b) == [sev |-> sev, stage |-> stage, a |-> a, b |-> b]
LogTarget == Entry("info", "System", 0, 0)            \* "[System] Target URL"
LogRateOk(r) == Entry("success", "Finance", r, 0)     \* "[Finance] Rate fetched"
LogRateErr == Entry("warning", "Finance", FallbackRate, 0) \* "[Finance] API Error"
LogProbe == Entry("info", "System", 1, 0)             \* "[System] Fetching Page 1"
LogNetErr(i) == Entry("error", "Network", i, 0)       \* "[Network] Error <status> at <url>"
LogCritical == Entry("critical", "Critical", 1, 0)    \* "[Critical] Page 1 failed"
LogNoCars == Entry("warning", "Warning", 1, 0)        \* "[Warning] Page 1 loaded but NO cars"
LogSummary(p, n) == Entry("info", "Summary", p, n)    \* "[System] Scrape Finished"

\* ------------------------------------------------------------ markup
\* A response body: None (no body returned), or a text.  A text is
\* empty ("" is falsy in Python) or carries listing containers.  A container
\* is what the field probes see of it:
\*   tag     the digits of its price-labelled element (0: no such element,
\*           no digit in it, or digits worth 0);
\*   usd     the number after the first "US$" of its flattened text (0: none);
\*   broken  that number is written so that int() raises (e.g. "US$ ,");
\*   tokens  the numeric tokens of its flattened text, in order; a token is
\*           glued when a word character touches it ("1995cc"), so that no
\*           word boundary surrounds its digits;
\*   page    the page it was served on.
None == [isNone |-> TRUE, nonEmpty |-> FALSE, cont |-> <<>>]
EmptyBody == [isNone |-> FALSE, nonEmpty |-> FALSE, cont |-> <<>>]
Text(cs) == [isNone |-> FALSE, nonEmpty |-> TRUE, cont |-> cs]
Token(num, glued) == [num |-> num, glued |-> glued]
RawContainer(tag, usd, broken, tokens, page) ==
    [tag |-> tag, usd |-> usd, broken |-> broken, tokens |-> tokens, page |-> page]
\* A container without price element, with "US$ <usd>" and the one standalone
\* token <year> in its text (year = 0: no numeric token at all).
Container(usd, year, page) ==
    RawContainer(0, usd, FALSE, IF year = 0 THEN <<>> ELSE <<Token(year, FALSE)>>, page)

\* Python truthiness of a fetch result: None and "" are falsy.
TruthyAlways(h) == TRUE
Truthy(h) == (~h.isNone) /\ h.nonEmpty

\* Bodies page 1 can be served with: an empty body, a page without any
\* listing container, a page whose containers all fail the validation gate,
\* and a page with valid listings among invalid ones.
Page1Bodies ==
    { EmptyBody,
      Text(<<>>),
      Text(<<Container(5, 2010, 1), Container(3200, 0, 1)>>),
      Text(<<Container(3200, 2010, 1), Container(0, 1999, 1), Container(9000, 2021, 1)>>) }

\* The body the source serves for page i >= 2 when it answers 200.
Site(i) ==
    IF i % 3 = 0 THEN Text(<<>>)
    ELSE IF i % 3 = 1 THEN Text(<<Container(1000 * i, 2000 + i, i)>>)
    ELSE Text(<<Container(1000 * i, 2000 + i, i), Container(0, 2015, i),
                Container(2000 * i, 1990 + i, i)>>)

\* ------------------------------------------------------------ extraction
\* int(x / 1000): truncation toward zero.
TruncRound(n, d) == (2 * n + d) \div (2 * d)
Trunc(n, d) == IF n >= 0 THEN n \div d ELSE -((-n) \div d)

\* Lines 58-68: the price element first, the currency pattern when it gave 0.
price_usd(c) == IF c.tag # 0 THEN c.tag ELSE c.usd

\* Lines 70-72.
extract_price_fixed_rate(c, exchange_rate) ==
    IF price_usd(c) > 0 THEN Trunc(price_usd(c) * FallbackRate, 1000) ELSE 0
extract_price(c, exchange_rate) ==
    IF price_usd(c) > 0 THEN Trunc(price_usd(c) * exchange_rate, 1000) ELSE 0

\* Lines 94-95: the first token matching \b(198\d|199\d|200\d|201\d|202\d)\b;
\* 0 stands for None.
RECURSIVE YearOf(_)
YearOf(tokens) ==
    IF tokens = <<>> THEN 0
    ELSE IF (~Head(tokens).glued) /\ Head(tokens).num >= 1980 /\ Head(tokens).num <= 2029
         THEN Head(tokens).num
         ELSE YearOf(Tail(tokens))

\* Line 109: the validation gate.
GateYearOnly(price, year) == year # 0
Gate(price, year) == price > 0 /\ year # 0

RECURSIVE ParseContainers(_, _)
ParseContainers(cs, exchange_rate) ==
    IF cs = <<>> THEN <<>>
    ELSE LET c == Head(cs)
             price == extract_price(c, exchange_rate)
             year == YearOf(c.tokens)
             rest == ParseContainers(Tail(cs), exchange_rate)
         IN IF c.tag = 0 /\ c.broken
            THEN rest             \* int() raised: except Exception: continue
            ELSE IF Gate(price, year)
            THEN <<[price |-> price, year |-> year, page |-> c.page]>> \o rest
            ELSE rest

parse_search_results(html_text, exchange_rate) ==
    IF ~Truthy(html_text) THEN <<>>
    ELSE ParseContainers(html_text.cont, exchange_rate)

\* ------------------------------------------------------------ state
VARIABLES
    pc,               \* position of scrape_listings_async_runner
    maxPages,         \* max_pages
    hasCallback,      \* progress_callback is not None
    logs,             \* logs
    rateOutcome,      \* what the rate request ended in ("" before it ends)
    rate,             \* rate
    sem,              \* free slots of sem
    fetch,            \* position of the fetch_page_async call of each page
    outcome,          \* what the request of each page ended in ("" before)
    html_pages,       \* what fetch_page_async returned for each page
    all_cars,         \* all_cars
    completed_tasks,  \* completed_tasks
    calls,            \* the (completed, total) pairs progress_callback received
    result,           \* the (records, log) pair returned to the caller
    pure              \* a call of one of the module's pure functions:
                      \* its arguments and, once applied, its value

vars == <<pc, maxPages, hasCallback, logs, rateOutcome, rate, sem, fetch, outcome,
          html_pages, all_cars, completed_tasks, calls, result, pure>>

NoCall == [fn |-> "none", done |-> FALSE]

NoResult == [returned |-> FALSE, records |-> <<>>, log |-> <<>>]
Result(records, log) == [returned |-> TRUE, records |-> records, log |-> log]

FanOut == 2..maxPages

\* Fan-out pages whose request ended without a 200.
FailedPages == {i \in FanOut : outcome[i] \notin {"", "200"}}

Init ==
    /\ pc = "start"
    /\ maxPages \in 1..MaxPages
    /\ hasCallback \in BOOLEAN
    /\ logs = <<>>
    /\ rateOutcome = ""
    /\ rate = 0
    /\ sem = SemCapacity
    /\ fetch = [i \in Pages |-> "idle"]
    /\ outcome = [i \in Pages |-> ""]
    /\ html_pages = [i \in Pages |-> None]
    /\ all_cars = <<>>
    /\ completed_tasks = 0
    /\ calls = <<>>
    /\ result = NoResult
    /\ pure = NoCall

\* ------------------------------------------------------------ rate provider
\* get_usd_jpy_rate_async: the value returned and the log it leaves, by what
\* the request ended in.  A status other than 200 leaves the `async with`
\* without raising, so nothing is logged on that path.
RateValueNoFallback(o, quote) ==
    IF o = "ok" THEN quote ELSE IF o = "status" THEN 0 ELSE FallbackRate
RateValue(o, quote) == IF o = "ok" THEN quote ELSE FallbackRate

RateLogs(o, quote, lg) ==
    IF o = "ok" THEN Append(lg, LogRateOk(quote))
    ELSE IF o = "status" THEN lg
    ELSE Append(lg, LogRateErr)

\* ------------------------------------------------------------ page fetcher
\* fetch_page_async after the response: what it returns and what it logs.
\* Only a status other than 200 and 404 is logged; the except branch returns
\* None without logging.
fetch_page_html(o, body) == IF o = "200" THEN body ELSE None

fetch_page_logs_overwrite(o, i, lg) == IF o = "503" THEN <<LogNetErr(i)>> ELSE lg
fetch_page_logs_any_status(o, i, lg) ==
    IF o \in {"503", "404"} THEN Append(lg, LogNetErr(i)) ELSE lg
fetch_page_logs(o, i, lg) == IF o = "503" THEN Append(lg, LogNetErr(i)) ELSE lg

\* `async with semaphore`: a slot is taken only when one is free.
SemFreeAlways == TRUE
SemFree == sem > 0

\* Leaving `async with semaphore` (line 36) gives the slot back, whatever the
\* request ended in: by return from every branch of lines 45-52 and from the
\* except branch of line 55.
ReleaseUnlessException(o) == IF o = "exception" THEN 0 ELSE 1
Release(o) == 1

\* Lines 42-55: every branch of fetch_page_async returns; there is no loop,
\* so the fetch is over whatever the request ended in.
ResolvedRetry(o) == IF o = "503" THEN "wait" ELSE "done"
Resolved(o) == "done"

\* asyncio.Semaphore wakes its waiters first-in first-out, and the fan-out
\* tasks are created (lines 207-210), hence queued, in page order.
NextWaiter(i) == \A j \in FanOut : fetch[j] = "wait" => i <= j

\* ------------------------------------------------------------ runner
\* Lines 168-175: the runner appends the target entry and awaits the rate.
Begin ==
    /\ pc = "start"
    /\ logs' = Append(logs, LogTarget)
    /\ pc' = "rate"
    /\ UNCHANGED <<maxPages, hasCallback, rateOutcome, rate, sem, fetch, outcome,
                   html_pages, all_cars, completed_tasks, calls, result>>
    /\ UNCHANGED pure

\* get_usd_jpy_rate_async returns.
GetRate ==
    /\ pc = "rate"
    /\ \E o \in {"ok"} \cup RateFailures, quote \in RateQuotes :
        /\ rateOutcome' = o
        /\ rate' = RateValue(o, quote)
        /\ logs' = RateLogs(o, quote, logs)
    /\ pc' = "rate_done"
    /\ UNCHANGED <<maxPages, hasCallback, sem, fetch, outcome, html_pages, all_cars,
                   completed_tasks, calls, result>>
    /\ UNCHANGED pure

\* Lines 179-182: the page-1 entry is logged and fetch_page_async(page 1)
\* is awaited; the semaphore is free, so its slot is taken at once.
StartProbe ==
    /\ pc = "rate_done"
    /\ SemFree
    /\ logs' = Append(logs, LogProbe)
    /\ sem' = sem - 1
    /\ fetch' = [fetch EXCEPT ![1] = "held"]
    /\ pc' = "probe"
    /\ UNCHANGED <<maxPages, hasCallback, rateOutcome, rate, outcome, html_pages,
                   all_cars, completed_tasks, calls, result>>
    /\ UNCHANGED pure

\* Line 197: the fan-out is entered only with more than one page asked for
\* and at least one record on page 1.
ShouldFanOutAnyway(cars_p1) == maxPages > 1
ShouldFanOutOnEmpty(cars_p1) == maxPages > 1 /\ Len(cars_p1) = 0
ShouldFanOut(cars_p1) == maxPages > 1 /\ Len(cars_p1) > 0

\* Lines 189 and 219: all_cars.extend(cars).
ExtendFront(cars, more) == more \o cars
Extend(cars, more) == cars \o more

\* Line 203: completed_tasks += 1.
IncrementLost(c) == c
Increment(c) == c + 1

\* Lines 184-197 once page 1 has been fetched with result h and log lg:
\* the abort on a falsy result, the extraction, the first progress call, the
\* warning, and the decision to fan out.  raises: the callback raised.
AfterProbe(h, lg, raises) ==
    IF ~Truthy(h)
    THEN /\ logs' = Append(lg, LogCritical)
         /\ result' = Result(<<>>, Append(lg, LogCritical))
         /\ pc' = "returned"
         /\ UNCHANGED <<all_cars, calls, completed_tasks>>
         /\ fetch' = [fetch EXCEPT ![1] = "done"]
    ELSE LET cars_p1 == parse_search_results(h, rate)
             cars == Extend(all_cars, cars_p1)
             lg2 == IF cars_p1 = <<>> THEN Append(lg, LogNoCars) ELSE lg
         IN /\ all_cars' = cars
            /\ calls' = IF hasCallback THEN Append(calls, <<1, maxPages>>) ELSE calls
            /\ IF raises
               THEN /\ pc' = "raised"
                    /\ logs' = lg
                    /\ fetch' = [fetch EXCEPT ![1] = "done"]
                    /\ UNCHANGED <<result, completed_tasks>>
               ELSE /\ logs' = lg2
                    /\ IF ShouldFanOut(cars_p1)
                       THEN /\ completed_tasks' = 1
                            /\ fetch' = [i \in Pages |->
                                          IF i = 1 THEN "done"
                                          ELSE IF i <= maxPages THEN "wait"
                                          ELSE fetch[i]]
                            /\ pc' = "gather"
                            /\ UNCHANGED result
                       ELSE /\ fetch' = [fetch EXCEPT ![1] = "done"]
                            /\ result' = Result(cars, lg2)
                            /\ pc' = "returned"
                            /\ UNCHANGED completed_tasks

\* The page-1 request ends: fetch_page_async classifies it, releases its slot
\* and returns to the runner, which continues to its next await or return.
ProbeReturns ==
    /\ pc = "probe"
    /\ fetch[1] = "held"
    /\ \E o \in Outcomes, body \in Page1Bodies, raises \in BOOLEAN :
        /\ raises => hasCallback
        /\ outcome' = [outcome EXCEPT ![1] = o]
        /\ html_pages' = [html_pages EXCEPT ![1] = fetch_page_html(o, body)]
        /\ sem' = sem + Release(o)
        /\ AfterProbe(fetch_page_html(o, body), fetch_page_logs(o, 1, logs), raises)
    /\ UNCHANGED <<maxPages, hasCallback, rateOutcome, rate>>
    /\ UNCHANGED pure

\* ------------------------------------------------------------ fan-out
\* Line 36 in a fan-out task: the task enters `async with semaphore`.
Acquire(i) ==
    /\ pc = "gather"
    /\ fetch[i] = "wait"
    /\ NextWaiter(i)
    /\ SemFree
    /\ sem' = sem - 1
    /\ fetch' = [fetch EXCEPT ![i] = "held"]
    /\ UNCHANGED <<pc, maxPages, hasCallback, logs, rateOutcome, rate, outcome,
                   html_pages, all_cars, completed_tasks, calls, result>>
    /\ UNCHANGED pure

\* What the event loop does with the fetches still pending when the runner
\* ends with an exception: they are cancelled, and a cancelled fetch leaves
\* its `async with semaphore`.
Abandon(f) == [i \in Pages |-> IF f[i] \in {"wait", "held"} THEN "cancelled" ELSE f[i]]

HeldBy(f) == Cardinality({i \in Pages : f[i] = "held"})

\* Lines 200-205, monitored_fetch(page i) after its request ends:
\* fetch_page_async classifies the response, releases the slot and returns;
\* the counter is incremented and the callback invoked.  An exception of the
\* callback leaves the task and, through gather, the runner.
PageReturns(i) ==
    /\ pc = "gather"
    /\ fetch[i] = "held"
    /\ \E o \in Outcomes, raises \in BOOLEAN :
        /\ raises => hasCallback
        /\ o # "200" => Cardinality(FailedPages) < MaxFailedPages
        /\ outcome' = [outcome EXCEPT ![i] = o]
        /\ html_pages' = [html_pages EXCEPT ![i] = fetch_page_html(o, Site(i))]
        /\ logs' = fetch_page_logs(o, i, logs)
        /\ completed_tasks' = Increment(completed_tasks)
        /\ calls' = IF hasCallback
                    THEN Append(calls, <<Increment(completed_tasks), maxPages>>)
                    ELSE calls
        /\ IF raises
           THEN /\ pc' = "raised"
                /\ fetch' = Abandon([fetch EXCEPT ![i] = Resolved(o)])
                /\ sem' = sem + Release(o) + HeldBy([fetch EXCEPT ![i] = Resolved(o)])
           ELSE /\ pc' = pc
                /\ fetch' = [fetch EXCEPT ![i] = Resolved(o)]
                /\ sem' = sem + Release(o)
    /\ UNCHANGED <<maxPages, hasCallback, rateOutcome, rate, all_cars, result>>
    /\ UNCHANGED pure

\* Lines 214-219: the pages gather returned, in task order, are extracted
\* and appended; valid_pages_count counts page 1 and the truthy results.
RECURSIVE MergePagesUntilFailure(_, _, _, _)
MergePagesUntilFailure(i, n, hp, exchange_rate) ==
    IF i > n \/ ~Truthy(hp[i]) THEN <<>>
    ELSE parse_search_results(hp[i], exchange_rate)
         \o MergePagesUntilFailure(i + 1, n, hp, exchange_rate)

RECURSIVE MergePagesReversed(_, _, _, _)
MergePagesReversed(i, n, hp, exchange_rate) ==
    IF i > n THEN <<>>
    ELSE MergePagesReversed(i + 1, n, hp, exchange_rate)
         \o (IF Truthy(hp[i]) THEN parse_search_results(hp[i], exchange_rate) ELSE <<>>)

RECURSIVE MergePages(_, _, _, _)
MergePages(i, n, hp, exchange_rate) ==
    IF i > n THEN <<>>
    ELSE (IF Truthy(hp[i]) THEN parse_search_results(hp[i], exchange_rate) ELSE <<>>)
         \o MergePages(i + 1, n, hp, exchange_rate)

valid_pages_count == 1 + Cardinality({i \in FanOut : Truthy(html_pages[i])})

\* Line 212: `await asyncio.gather(*tasks)` resumes the runner once every
\* task has returned.
GatherDoneEarly == \E i \in FanOut : fetch[i] = "done"
GatherDone == \A i \in FanOut : fetch[i] = "done"

\* Lines 212-223: gather returns once every task has returned; the runner
\* merges, appends the summary and returns.
Merge ==
    /\ pc = "gather"
    /\ GatherDone
    /\ LET cars == Extend(all_cars, MergePages(2, maxPages, html_pages, rate))
           lg == Append(logs, LogSummary(valid_pages_count, Len(cars)))
       IN /\ all_cars' = cars
          /\ logs' = lg
          /\ result' = Result(cars, lg)
    /\ pc' = "returned"
    /\ UNCHANGED <<maxPages, hasCallback, rateOutcome, rate, sem, fetch, outcome,
                   html_pages, completed_tasks, calls>>
    /\ UNCHANGED pure

\* External cancellation of the harvest while the runner is suspended at an
\* await: CancelledError is raised into the runner and into every pending
\* fetch.  It is not an Exception, so no handler of the module catches it:
\* the slots are released by the `async with` and the error leaves the runner.
Cancel ==
    /\ pc \in {"rate", "probe", "gather"}
    /\ pc' = "cancelled"
    /\ fetch' = Abandon(fetch)
    /\ sem' = sem + HeldBy(fetch)
    /\ UNCHANGED <<maxPages, hasCallback, logs, rateOutcome, rate, outcome, html_pages,
                   all_cars, completed_tasks, calls, result>>
    /\ UNCHANGED pure

Next ==
    \/ Begin
    \/ GetRate
    \/ StartProbe
    \/ ProbeReturns
    \/ \E i \in Pages : Acquire(i)
    \/ \E i \in Pages : PageReturns(i)
    \/ Merge
    \/ Cancel

Spec == Init /\ [][Next]_vars

\* The steps of the harvest itself: every step but a cancellation.
Progress ==
    \/ Begin
    \/ GetRate
    \/ StartProbe
    \/ ProbeReturns
    \/ \E i \in Pages : Acquire(i)
    \/ \E i \in Pages : PageReturns(i)
    \/ Merge

\* The event loop keeps running the coroutines that are ready, and every
\* request returns or times out (timeout=30, line 44): while the harvest can
\* take a step, it eventually takes one.  A cancellation is never owed.
Fairness == WF_vars(Progress)

SpecLive == Init /\ [][Next]_vars /\ Fairness

\* ------------------------------------------------------------ pagination
\* A URL is its part before the query, which urlparse/urlunparse hand through
\* unchanged, and its query: the sequence of its raw "key=value" fields.
Url(base, query) == [base |-> base, query |-> query]
Field(k, v) == [k |-> k, v |-> v]

\* unquote_plus / quote_plus on the strings the model's URLs are made of.
unquote_plus(s) ==
    CASE s = "p%6E" -> "pn"
      [] s = "a%20b" -> "a b"
      [] s = "a+b" -> "a b"
      [] OTHER -> s

quote_plus(s) == IF s = "a b" THEN "a+b" ELSE s

\* str(page_number).
Digits == <<"1", "2", "3", "4", "5", "6", "7", "8", "9">>
str(n) == Digits[n]

\* The dict parse_qs builds: its keys in insertion order, each with the list
\* of its values.
DictHas(d, k) == \E x \in 1..Len(d) : d[x].k = k

DictAdd(d, k, v) ==
    IF DictHas(d, k)
    THEN [x \in 1..Len(d) |->
            IF d[x].k = k THEN [k |-> k, vs |-> Append(d[x].vs, v)] ELSE d[x]]
    ELSE Append(d, [k |-> k, vs |-> <<v>>])

\* query_params[k] = vs
DictSet(d, k, vs) ==
    IF DictHas(d, k)
    THEN [x \in 1..Len(d) |-> IF d[x].k = k THEN [k |-> k, vs |-> vs] ELSE d[x]]
    ELSE Append(d, [k |-> k, vs |-> vs])

\* del query_params[k]
DictDelNothing(d, k) == d
DictDel(d, k) == SelectSeq(d, LAMBDA e : e.k # k)

\* parse_qs(query): keep_blank_values is left at False, so a field whose raw
\* value is empty is dropped; keys and values are unquoted.
RECURSIVE ParseFields(_, _)
ParseFields(q, d) ==
    IF q = <<>> THEN d
    ELSE IF Head(q).v = "" THEN ParseFields(Tail(q), d)
    ELSE ParseFields(Tail(q), DictAdd(d, unquote_plus(Head(q).k), unquote_plus(Head(q).v)))

parse_qs(query) == ParseFields(query, <<>>)

\* urlencode(query_params, doseq=True): one field per value, key by key.
RECURSIVE urlencode(_)
urlencode(d) ==
    IF d = <<>> THEN <<>>
    ELSE [x \in 1..Len(Head(d).vs) |->
            Field(quote_plus(Head(d).k), quote_plus(Head(d).vs[x]))]
         \o urlencode(Tail(d))

get_clean_base_url(url) ==
    LET query_params == parse_qs(url.query)
    IN Url(url.base,
           urlencode(IF DictHas(query_params, "pn")
                     THEN DictDel(query_params, "pn")
                     ELSE query_params))

build_pagination_url(base_url, page_number) ==
    Url(base_url.base,
        urlencode(DictSet(parse_qs(base_url.query), "pn", <<str(page_number)>>)))

\* ------------------------------------------------------------ pure calls
\* The arguments the pure functions are applied to.
MaxParams == 3        \* fields in the query of a URL
MaxPageNo == 3        \* page numbers passed to build_pagination_url
MaxContainers == 2    \* containers of an extracted page

SeqsUpTo(S, n) == UNION {[1..k -> S] : k \in 0..n}

UrlFields == {Field(k, v) : k \in {"pn", "p%6E", "steering"}, v \in {"", "2", "a%20b"}}
Urls == {Url("https://www.tc-v.com/used_car/honda/fit/", q) : q \in SeqsUpTo(UrlFields, MaxParams)}

\* The base_url of a harvest: the URLs above, also behind an explicit pn=1.
BaseUrls ==
    Urls \cup {Url(u.base, <<Field("pn", "1")>> \o u.query) :
                   u \in {w \in Urls : Len(w.query) < MaxParams}}

TokenTexts ==
    { <<>>,
      <<Token(1995, TRUE), Token(2010, FALSE)>>,
      <<Token(1979, FALSE), Token(2030, FALSE)>>,
      <<Token(12000, FALSE), Token(2029, FALSE), Token(1980, FALSE)>>,
      <<Token(1980, FALSE)>> }
PureContainers ==
    {RawContainer(p[1], p[2], p[3], t, 1) :
        p \in {<<0, 0, FALSE>>, <<0, 5, FALSE>>, <<0, 3200, FALSE>>, <<3200, 5, FALSE>>,
               <<0, 0, TRUE>>},
        t \in TokenTexts}
PureRates == {150, 145, 1, 0, -3}

\* Line 179: the URL page 1 is requested with.
page1_url_explicit(base_url) == build_pagination_url(base_url, 1)
page1_url(base_url) == get_clean_base_url(base_url)
\* Lines 208-209: the URL of the fan-out task of page i.
task_url(base_url, i) == build_pagination_url(page1_url(base_url), i)
\* The URLs a harvest of max_pages pages requests, page by page.
RequestUrls(base_url, max_pages) ==
    <<page1_url(base_url)>> \o [k \in 1..(max_pages - 1) |-> task_url(base_url, k + 1)]

RequestsCall(u, n) ==
    [fn |-> "requests", done |-> FALSE, u |-> u, max_pages |-> n, urls |-> <<>>]
UrlCall(u, n, m) ==
    [fn |-> "url", done |-> FALSE, u |-> u, n |-> n, m |-> m,
     clean |-> u, clean2 |-> u, page_n |-> u, page_m |-> u, clean_page |-> u]
ExtractCall(cs, r) ==
    [fn |-> "extract", done |-> FALSE, markup |-> Text(cs), rate |-> r, out |-> <<>>]
PriceCall(c, r) ==
    [fn |-> "price", done |-> FALSE, c |-> c, rate |-> r, out |-> 0]

\* The pending call is one of the calls above.
PureCall(call) ==
    \/ \E u \in Urls, n \in 1..MaxPageNo, m \in 1..MaxPageNo : call = UrlCall(u, n, m)
    \/ \E cs \in SeqsUpTo(PureContainers, MaxContainers), r \in PureRates :
          call = ExtractCall(cs, r)
    \/ \E c \in PureContainers, r \in PureRates : call = PriceCall(c, r)
    \/ \E u \in BaseUrls, n \in 1..MaxPageNo : call = RequestsCall(u, n)

\* No harvest runs; one call of a pure function is pending.
InitPure ==
    /\ pc = "pure"
    /\ maxPages = 1
    /\ hasCallback = FALSE
    /\ logs = <<>>
    /\ rateOutcome = ""
    /\ rate = 0
    /\ sem = SemCapacity
    /\ fetch = [i \in Pages |-> "idle"]
    /\ outcome = [i \in Pages |-> ""]
    /\ html_pages = [i \in Pages |-> None]
    /\ all_cars = <<>>
    /\ completed_tasks = 0
    /\ calls = <<>>
    /\ result = NoResult
    /\ PureCall(pure)

harvest == <<pc, maxPages, hasCallback, logs, rateOutcome, rate, sem, fetch, outcome,
             html_pages, all_cars, completed_tasks, calls, result>>

\* get_clean_base_url and build_pagination_url are applied to the URL.
ApplyUrl ==
    /\ pure.fn = "url"
    /\ ~pure.done
    /\ pure' = [pure EXCEPT
                  !.done = TRUE,
                  !.clean = get_clean_base_url(pure.u),
                  !.clean2 = get_clean_base_url(get_clean_base_url(pure.u)),
                  !.page_n = build_pagination_url(pure.u, pure.n),
                  !.page_m = build_pagination_url(pure.u, pure.m),
                  !.clean_page = get_clean_base_url(build_pagination_url(pure.u, pure.n))]
    /\ UNCHANGED harvest

\* parse_search_results is applied to the markup.
ApplyExtract ==
    /\ pure.fn = "extract"
    /\ ~pure.done
    /\ pure' = [pure EXCEPT !.done = TRUE,
                            !.out = parse_search_results(pure.markup, pure.rate)]
    /\ UNCHANGED harvest

\* extract_price is applied to the container.
ApplyPrice ==
    /\ pure.fn = "price"
    /\ ~pure.done
    /\ pure' = [pure EXCEPT !.done = TRUE, !.out = extract_price(pure.c, pure.rate)]
    /\ UNCHANGED harvest

\* The runner derives the URLs of its requests from base_url.
ApplyRequests ==
    /\ pure.fn = "requests"
    /\ ~pure.done
    /\ pure' = [pure EXCEPT !.done = TRUE,
                            !.urls = RequestUrls(pure.u, pure.max_pages)]
    /\ UNCHANGED harvest

NextPure ==
    \/ ApplyUrl
    \/ ApplyExtract
    \/ ApplyPrice
    \/ ApplyRequests

SpecPure == InitPure /\ [][NextPure]_vars

\* ------------------------------------------------------------ vocabulary
IsPrefix(s, t) == Len(s) <= Len(t) /\ \A k \in 1..Len(s) : s[k] = t[k]
InLog(e, lg) == \E k \in 1..Len(lg) : lg[k] = e
FromPage(i, cars) == \E k \in 1..Len(cars) : cars[k].page = i

\* fetch_page_async(page 1) has returned.
ProbeDone == fetch[1] = "done"
\* Page 1 came back with markup (the test of line 184 passed).
ProbeMarkup == ProbeDone /\ (~html_pages[1].isNone) /\ html_pages[1].nonEmpty
\* The records extraction gives for page 1.
Page1Cars == parse_search_results(html_pages[1], rate)
\* No fetch of a page 2..max_pages has been started.
NoFanOutFetch == \A i \in Pages : i >= 2 => fetch[i] = "idle"

\* ------------------------------------------------------------ claims

\* C1: in every reachable state of a harvest the number of page fetches that
\* hold a limiter slot (between acquisition and release) is at most 5.
C1_AtMostFiveInFlight ==
    Cardinality({i \in Pages : fetch[i] = "held"}) <= 5

\* C1 witness: five fetches hold a slot while a sixth is queued on the limiter.
C1_Witness ==
    /\ Cardinality({i \in Pages : fetch[i] = "held"}) = 5
    /\ \E i \in Pages : fetch[i] = "wait"

C3_ProgressCalls ==
    /\ \A k \in 1..Len(calls) : calls[k][2] = maxPages
    /\ \A k \in 1..(Len(calls) - 1) : calls[k][1] <= calls[k + 1][1]
    /\ Len(calls) <= maxPages
    /\ (pc = "returned" /\ hasCallback /\ ProbeMarkup /\ Page1Cars # <<>>) =>
        /\ Len(calls) = maxPages
        /\ calls[Len(calls)] = <<maxPages, maxPages>>
        /\ \A k \in 1..Len(calls) : calls[k][1] = k

\* C3 witness: a returned harvest of at least three pages with a callback,
\* of which one fan-out page ended in an exception and one in a 404.
C3_Witness ==
    /\ pc = "returned"
    /\ hasCallback
    /\ maxPages >= 3
    /\ Len(calls) = maxPages
    /\ \E i, j \in FanOut : outcome[i] = "exception" /\ outcome[j] = "404"

\* C4: when the page-1 fetch returns no markup, the harvest has returned an
\* empty record sequence with a log holding the critical entry, no fetch of a
\* page 2..max_pages is ever started and the progress callback is never
\* invoked.
C4_Page1FailureAborts ==
    (ProbeDone /\ ~ProbeMarkup) =>
        /\ pc = "returned"
        /\ result.returned
        /\ result.records = <<>>
        /\ InLog(LogCritical, result.log)
        /\ NoFanOutFetch
        /\ calls = <<>>

\* C4 witness: a harvest of several pages with a callback returned after the
\* page-1 request raised.
C4_Witness ==
    /\ pc = "returned"
    /\ hasCallback
    /\ maxPages >= 2
    /\ outcome[1] = "exception"

\* The log holds an error or critical entry about page i.
ErrorAbout(i, lg) ==
    \E k \in 1..Len(lg) : lg[k].sev \in {"error", "critical"} /\ lg[k].a = i

\* C5 (as claimed): a page fetch that receives HTTP 404, page 1 as well as a
\* page 2..max_pages, contributes zero records and causes no error or
\* critical entry in the harvest log.
C5_NotFoundNeverLogged ==
    \A i \in Pages : outcome[i] = "404" =>
        /\ ~FromPage(i, all_cars)
        /\ ~ErrorAbout(i, logs)

\* C5 (amended): a page fetch that receives HTTP 404 returns no markup,
\* contributes zero records and is not logged by the page fetcher; for a
\* page 2..max_pages the log holds no error or critical entry about it, while
\* a 404 on page 1 aborts the harvest with the critical "Page 1 failed" entry.
C5_NotFoundFanOutNotLogged ==
    \A i \in Pages : outcome[i] = "404" =>
        /\ html_pages[i].isNone
        /\ ~FromPage(i, all_cars)
        /\ ~FromPage(i, result.records)
        /\ ~InLog(LogNetErr(i), logs)
        /\ i >= 2 => ~ErrorAbout(i, logs)
        /\ i = 1 => InLog(LogCritical, logs) /\ result = Result(<<>>, logs)

\* C5 witness: a returned harvest one of whose fan-out pages received a 404
\* while another delivered records.
C5_Witness ==
    /\ pc = "returned"
    /\ \E i, j \in FanOut :
        /\ outcome[i] = "404"
        /\ outcome[j] = "200"
        /\ FromPage(j, result.records)

\* C6 (as claimed): the harvest never ends by raising an exception to its
\* caller, whatever the rate request, the page requests and the progress
\* callback do.
C6_NeverRaises == pc # "raised"

\* C7 (as claimed): a harvest cancelled while its fan-out is in flight still
\* returns a result, which holds the records already extracted (those of
\* page 1 at least).
C7_CancelKeepsPartial ==
    (pc = "cancelled" /\ ProbeDone) =>
        /\ result.returned
        /\ IsPrefix(Page1Cars, result.records)

\* C8: after any failure of the rate request (exception or timeout, status
\* other than 200, malformed payload, missing field) the rate is exactly the
\* fallback 150 and the runner goes on to the page-1 fetch.
C8_RateFallback ==
    (rateOutcome \in RateFailures) =>
        /\ rate = 150
        /\ fetch[1] = "idle" => (pc = "rate_done" /\ ENABLED StartProbe)

\* C8 witness: the page-1 fetch is under way after a rate request answered
\* with a status other than 200.
C8_Witness ==
    /\ rateOutcome = "status"
    /\ pc = "probe"
    /\ fetch[1] = "held"

\* C9 (as claimed): when the rate provider returns, it has appended exactly
\* one entry to the log (which until then holds the target entry alone): a
\* success entry for a fetched rate, a warning entry for every failure.
C9_OneRateEntry ==
    pc = "rate_done" =>
        /\ Len(logs) = 2
        /\ logs[2].stage = "Finance"
        /\ logs[2].sev = (IF rateOutcome = "ok" THEN "success" ELSE "warning")

\* C10 (as claimed): the rate the provider returns is positive, whatever the
\* quote service answered.
C10_RatePositive == rateOutcome # "" => rate > 0

\* ------------------------------------------------------------ pure-call vocabulary
\* The source price of a container: the digits of its price element, or else
\* the number after "US$".
SourcePrice(c) == IF c.tag > 0 THEN c.tag ELSE c.usd
\* The text of a container holds a standalone token 1980..2029.
HasModelYear(c) ==
    \E k \in 1..Len(c.tokens) :
        (~c.tokens[k].glued) /\ c.tokens[k].num \in 1980..2029
\* The container passes every step of the extraction at rate r.
Kept(c, r) ==
    /\ ~(c.tag = 0 /\ c.broken)
    /\ SourcePrice(c) * r >= 1000
    /\ HasModelYear(c)

\* The fields of a query, unquoted, without those of the page parameter.
OtherFields(q) ==
    SelectSeq([x \in 1..Len(q) |-> Field(unquote_plus(q[x].k), unquote_plus(q[x].v))],
              LAMBDA f : f.k # "pn")
PageFields(q) ==
    SelectSeq([x \in 1..Len(q) |-> Field(unquote_plus(q[x].k), unquote_plus(q[x].v))],
              LAMBDA f : f.k = "pn")
Occurrences(s, e) == Cardinality({x \in 1..Len(s) : s[x] = e})
SameFields(s, t) ==
    \A e \in {s[x] : x \in 1..Len(s)} \cup {t[x] : x \in 1..Len(t)} :
        Occurrences(s, e) = Occurrences(t, e)

\* C11: every record extract returns has price > 0 and a year in 1980..2029,
\* and the records are exactly those of the containers with a normalized
\* price > 0 and a model year: a container whose price is 0 (none found, or
\* truncated to 0) or whose year is missing is skipped and the containers
\* after it are still processed.
C11_ExtractOnlyValid ==
    (pure.fn = "extract" /\ pure.done) =>
        /\ \A k \in 1..Len(pure.out) :
            /\ pure.out[k].price > 0
            /\ pure.out[k].year \in 1980..2029
        /\ Len(pure.out) =
             Cardinality({k \in 1..Len(pure.markup.cont) :
                            Kept(pure.markup.cont[k], pure.rate)})

\* C11 witness: a page of two containers extracted at rate 150, the first
\* with a source price of 5 dollars (0 after conversion) and a model year,
\* the second kept.
C11_Witness ==
    /\ pure.fn = "extract"
    /\ pure.done
    /\ pure.rate = 150
    /\ Len(pure.markup.cont) = 2
    /\ SourcePrice(pure.markup.cont[1]) = 5
    /\ HasModelYear(pure.markup.cont[1])
    /\ Len(pure.out) = 1

\* C15: get_clean_base_url(build_pagination_url(u, n)) and
\* get_clean_base_url(u) carry no pn parameter, and get_clean_base_url is
\* idempotent on every URL, those of build_pagination_url included.
C15_CanonicalIdempotent ==
    (pure.fn = "url" /\ pure.done) =>
        /\ PageFields(pure.clean_page.query) = <<>>
        /\ PageFields(pure.clean.query) = <<>>
        /\ pure.clean2 = pure.clean
        /\ get_clean_base_url(pure.clean_page) = pure.clean_page

\* C15 witness: the functions applied to a URL with a pn field, a field
\* whose key unquotes to pn, and another filter.
C15_Witness ==
    /\ pure.fn = "url"
    /\ pure.done
    /\ \E x, y, z \in 1..Len(pure.u.query) :
        /\ pure.u.query[x] = Field("pn", "2")
        /\ pure.u.query[y].k = "p%6E"
        /\ pure.u.query[z] = Field("steering", "a%20b")
    /\ pure.clean.query = <<Field("steering", "a+b")>>

\* C16 (as claimed): for n # m, build_pagination_url(u, n) and
\* build_pagination_url(u, m) differ only in the value of pn, and every
\* other parameter of u, repeated keys and empty values included, is in
\* build_pagination_url(u, n) with its value, up to order.
C16_OtherParamsPreserved ==
    (pure.fn = "url" /\ pure.done /\ pure.n # pure.m) =>
        /\ OtherFields(pure.page_n.query) = OtherFields(pure.page_m.query)
        /\ PageFields(pure.page_n.query) = <<Field("pn", str(pure.n))>>
        /\ PageFields(pure.page_m.query) = <<Field("pn", str(pure.m))>>
        /\ SameFields(OtherFields(pure.u.query), OtherFields(pure.page_n.query))

\* C17: for a container with source price P > 0 and a rate r, the normalized
\* price is P * r / 1000 truncated toward zero; P = 3200 at r = 150 gives 480,
\* and 0 <= P * r < 1000 gives 0.
C17_PriceTruncated ==
    (pure.fn = "price" /\ pure.done /\ SourcePrice(pure.c) > 0) =>
        LET x == SourcePrice(pure.c) * pure.rate
            q == pure.out
        IN /\ x >= 0 => (q * 1000 <= x /\ x < (q + 1) * 1000)
           /\ x < 0 => (q * 1000 >= x /\ x > (q - 1) * 1000)
           /\ (SourcePrice(pure.c) = 3200 /\ pure.rate = 150) => q = 480
           /\ (x >= 0 /\ x < 1000) => q = 0

\* C17 witness: extract_price applied to "US$ 3,200" at rate 150 gave 480.
C17_Witness ==
    /\ pure.fn = "price"
    /\ pure.done
    /\ pure.c.tag = 0
    /\ pure.c.usd = 3200
    /\ pure.rate = 150
    /\ pure.out = 480

\* ------------------------------------------------------------ phase vocabulary
\* The phases of a harvest, read from its state.
RateResolved == rateOutcome # ""
\* The harvest gave up after page 1: the fetch failed (critical entry) or the
\* page gave no record (warning entry).
Aborted == InLog(LogCritical, logs) \/ InLog(LogNoCars, logs)
\* The fan-out has been entered: its tasks exist.
FanningOut == pc = "gather" \/ \E i \in Pages : i >= 2 /\ fetch[i] # "idle"
\* A fetch is under way: queued on the limiter or holding a slot.
InFlight(f) == \E i \in Pages : f[i] \in {"wait", "held"}
\* The steps of the runner along the phase order, and the two ways a run
\* ends with an exception instead of returning.
PhaseSteps ==
    { <<"start", "rate">>, <<"rate", "rate_done">>, <<"rate_done", "probe">>,
      <<"probe", "returned">>, <<"probe", "gather">>, <<"gather", "returned">> }
ExceptionalExits ==
    { <<"probe", "raised">>, <<"gather", "raised">>,
      <<"rate", "cancelled">>, <<"probe", "cancelled">>, <<"gather", "cancelled">> }
\* The pages whose fetch returned markup.
PagesOk == {i \in Pages : (~html_pages[i].isNone) /\ html_pages[i].nonEmpty}
\* Every record of cars is in records.
AllIn(cars, records) ==
    \A k \in 1..Len(cars) : \E j \in 1..Len(records) : records[j] = cars[k]

\* C12: every step of a harvest advances along Init -> RateResolved ->
\* Page1Probed -> (Aborted | FanningOut) -> Merged, or ends the run with an
\* exception; no page fetch starts before the rate is resolved; the fan-out
\* is entered only from the page-1 probe; Aborted and FanningOut never both
\* hold; the harvest returns with no fetch in flight, and once it has
\* returned no fetch, log append or progress call occurs.
C12_PhaseOrder ==
    [][ /\ pc' # pc => <<pc, pc'>> \in PhaseSteps \cup ExceptionalExits
        /\ (\E i \in Pages : fetch[i] = "idle" /\ fetch'[i] # "idle") => RateResolved
        /\ (FanningOut' /\ ~FanningOut) => (pc = "probe" /\ fetch[1] = "held")
        /\ ~(Aborted' /\ FanningOut')
        /\ pc' = "returned" => (~InFlight(fetch') /\ result'.returned /\ result'.log = logs')
        /\ pc = "returned" => UNCHANGED <<fetch, outcome, logs, calls, result>>
      ]_vars

\* C12 witness: a harvest of five pages or more has returned after its
\* fan-out, with the rate fetched and every phase entry in its log.
C12_Witness ==
    /\ pc = "returned"
    /\ maxPages >= 5
    /\ rateOutcome = "ok"
    /\ \A i \in FanOut : fetch[i] = "done"
    /\ ~Aborted
    /\ Len(result.log) >= 4
    /\ result.log[1] = LogTarget
    /\ result.log[3] = LogProbe

\* C13 (as claimed): every harvest that has returned after a page-1 fetch
\* that gave markup has, as the last entry of its log, the summary line with
\* the number of pages fetched successfully and the length of the returned
\* record sequence, also for max_pages = 1 and for a page 1 without records.
C13_SummaryIsLast ==
    (pc = "returned" /\ ProbeMarkup) =>
        /\ result.log # <<>>
        /\ result.log[Len(result.log)] =
             LogSummary(Cardinality(PagesOk), Len(result.records))

\* C14: in every result the records of page 1 are a prefix of the record
\* sequence and no record of page 1 comes after a record of another page,
\* whatever order the fan-out fetches completed in.
C14_Page1Prefix ==
    result.returned =>
        /\ IsPrefix(Page1Cars, result.records)
        /\ \A k \in 1..Len(result.records) :
             k > Len(Page1Cars) => result.records[k].page >= 2
        /\ \A k \in 1..Len(Page1Cars) : result.records[k].page = 1

\* C14 witness: a result with records of page 1 and of a later page, after a
\* fan-out in which page 3 failed before page 2 did.
C14_Witness ==
    /\ result.returned
    /\ Page1Cars # <<>>
    /\ \E i \in FanOut : FromPage(i, result.records)
    /\ \E a, b \in 1..Len(result.log) :
        a < b /\ result.log[a] = LogNetErr(3) /\ result.log[b] = LogNetErr(2)

\* C18: a fetch of a page 2..max_pages is started (queued on the limiter
\* included) only after the page-1 fetch has returned markup and that markup
\* has been extracted into all_cars, and only if the extraction gave at
\* least one record and max_pages > 1.
C18_FanOutAfterPage1 ==
    \A i \in Pages : (i >= 2 /\ fetch[i] # "idle") =>
        /\ ProbeDone
        /\ ProbeMarkup
        /\ IsPrefix(Page1Cars, all_cars)
        /\ Len(Page1Cars) >= 1
        /\ maxPages > 1
        /\ i <= maxPages
        /\ outcome[1] = "200"

\* C18 witness: the fan-out of a two-page harvest is queued on the limiter,
\* page 1 extracted and nothing else fetched yet.
C18_Witness ==
    /\ pc = "gather"
    /\ maxPages = 2
    /\ fetch[2] = "wait"
    /\ outcome[2] = ""
    /\ Len(all_cars) >= 1

\* C19: a fan-out page whose fetch fails cancels no sibling: while the
\* fan-out runs no fetch is cancelled, a sibling holding a slot can still
\* complete and a queued one is served as soon as a slot is free; and a
\* harvest that has returned after its fan-out has completed every fetch
\* 2..max_pages and returns the records of page 1 and of every fan-out
\* page that returned markup.
C19_FailureIsolated ==
    /\ pc \in {"gather", "returned"} => \A i \in Pages : fetch[i] # "cancelled"
    /\ (pc = "gather" /\ FailedPages # {}) =>
        \A i \in FanOut :
            /\ fetch[i] = "held" => ENABLED PageReturns(i)
            /\ (fetch[i] = "wait" /\ NextWaiter(i) /\ sem > 0) => ENABLED Acquire(i)
    /\ (pc = "returned" /\ FanningOut) =>
        /\ \A i \in FanOut : fetch[i] = "done" /\ outcome[i] # ""
        /\ \A i \in PagesOk :
             AllIn(parse_search_results(html_pages[i], rate), result.records)

\* C19 witness: a harvest has returned with records of page 4 after page 2
\* answered 503 and the request of page 3 raised.
C19_Witness ==
    /\ pc = "returned"
    /\ outcome[2] = "503"
    /\ outcome[3] = "exception"
    /\ outcome[4] = "200"
    /\ FromPage(4, result.records)
    /\ FromPage(1, result.records)

\* C20 (as claimed): for every page fetch that ended in a status other than
\* 200 and 404 or in an exception, the log holds an entry about that failure.
C20_TransientLogged ==
    \A i \in Pages : outcome[i] \in {"503", "exception"} => ErrorAbout(i, logs)

\* ------------------------------------------------------------ request vocabulary
\* The pages whose request has been issued: the slot is held, or the request
\* has ended.
Requested(f, o) == {i \in Pages : f[i] = "held" \/ o[i] # ""}
\* Record rec is the price, at rate r, of a container of its page in hp.
PricedAt(rec, hp, r) ==
    \E x \in 1..Len(hp[rec.page].cont) :
        LET v == SourcePrice(hp[rec.page].cont[x]) * r
        IN rec.price * 1000 <= v /\ v < (rec.price + 1) * 1000
\* The records of page i in cars, in their order.
PageRecords(i, cars) == SelectSeq(cars, LAMBDA rec : rec.page = i)

\* C21 (as claimed): once a page fetch of the harvest has received a 404, no
\* page fetch that was not yet started (its slot not yet acquired, its
\* request not yet issued) is started.
C21_NoRequestAfterNotFound ==
    [][ \A i \in Pages :
          (fetch[i] = "wait" /\ fetch'[i] = "held") =>
              \A j \in Pages : outcome[j] # "404" ]_vars

\* C22: the rate is resolved once, while no page fetch has been started, and
\* never changes afterwards; every record extracted, of page 1 and of every
\* fan-out page, is the price of a container of its page at that rate.
C22_OneRate ==
    [][ /\ (rate' # rate \/ rateOutcome' # rateOutcome) =>
            /\ pc = "rate"
            /\ rateOutcome = ""
            /\ \A i \in Pages : fetch[i] = "idle"
            /\ all_cars = <<>>
        /\ \A k \in 1..Len(all_cars') : PricedAt(all_cars'[k], html_pages', rate')
        /\ \A k \in 1..Len(result'.records) :
             PricedAt(result'.records[k], html_pages', rate')
      ]_vars

\* C22 witness: a harvest whose rate request gave 145 has returned records of
\* page 1 and of page 2.
C22_Witness ==
    /\ pc = "returned"
    /\ rateOutcome = "ok"
    /\ rate = 145
    /\ FromPage(1, result.records)
    /\ FromPage(2, result.records)

\* C23: a page fetch that has issued its request never issues another: it
\* goes from holding its slot to over and stays there, its outcome is set
\* once, only pages 1..max_pages are requested, so at most max_pages
\* requests are made; and a page whose request failed has no record in
\* all_cars or in the result.
C23_NoRetry ==
    [][ /\ \A i \in Pages :
            /\ fetch[i] = "held" => fetch'[i] \in {"held", "done", "cancelled"}
            /\ fetch[i] \in {"done", "cancelled"} => fetch'[i] = fetch[i]
            /\ (fetch[i] # "held" /\ fetch'[i] = "held") => (outcome[i] = "" /\ i <= maxPages)
            /\ outcome[i] # "" => outcome'[i] = outcome[i]
            /\ outcome'[i] \notin {"", "200"} =>
                 (~FromPage(i, all_cars') /\ ~FromPage(i, result'.records))
        /\ Cardinality(Requested(fetch', outcome')) <= maxPages
      ]_vars

\* C23 witness: a harvest of six pages or more has returned with every page
\* requested, one of them answered 503 and without a record in the result.
C23_Witness ==
    /\ pc = "returned"
    /\ maxPages >= 6
    /\ Cardinality(Requested(fetch, outcome)) = maxPages
    /\ \E i \in FanOut : outcome[i] = "503" /\ ~FromPage(i, result.records)
    /\ \E i \in FanOut : FromPage(i, result.records)

\* C24: the URL of the page-1 request carries no pn parameter, even when
\* base_url carries pn=1; the URL of the request of page i = 2..max_pages is
\* build_pagination_url(get_clean_base_url(base_url), i) and carries pn=i
\* alone; no URL requested carries pn=1.
C24_RequestUrls ==
    (pure.fn = "requests" /\ pure.done) =>
        /\ Len(pure.urls) = pure.max_pages
        /\ PageFields(pure.urls[1].query) = <<>>
        /\ \A i \in 2..pure.max_pages :
            /\ pure.urls[i] = build_pagination_url(get_clean_base_url(pure.u), i)
            /\ PageFields(pure.urls[i].query) = <<Field("pn", str(i))>>
        /\ \A i \in 1..Len(pure.urls) : \A x \in 1..Len(pure.urls[i].query) :
             ~(/\ unquote_plus(pure.urls[i].query[x].k) = "pn"
               /\ unquote_plus(pure.urls[i].query[x].v) = "1")

\* C24 witness: the request URLs of a three-page harvest whose base_url
\* starts with pn=1 and carries another filter.
C24_Witness ==
    /\ pure.fn = "requests"
    /\ pure.done
    /\ pure.max_pages = 3
    /\ Len(pure.u.query) = 2
    /\ pure.u.query[1] = Field("pn", "1")
    /\ pure.u.query[2] = Field("steering", "2")
    /\ pure.urls[3].query = <<Field("steering", "2"), Field("pn", "3")>>

\* C25: under every interleaving of the fan-out completions the counter is
\* 1 + the number of fan-out fetches whose request has ended, the progress
\* calls report 1, 2, ... each once, every state of the log is a prefix of
\* the next, and the returned log is the log.
C25_NoLostUpdate ==
    [][ /\ IsPrefix(logs, logs')
        /\ FanningOut' =>
            completed_tasks' = 1 + Cardinality({i \in FanOut : outcome'[i] # ""})
        /\ (FanningOut' /\ hasCallback) =>
            calls' = [k \in 1..completed_tasks' |-> <<k, maxPages>>]
        /\ result'.returned => result'.log = logs'
      ]_vars

\* C25 witness: the fan-out is running, three of its fetches are over, two
\* of them logged by the fetcher, and others still hold a slot.
C25_Witness ==
    /\ pc = "gather"
    /\ completed_tasks = 4
    /\ Cardinality({i \in FanOut : fetch[i] = "held"}) >= 2
    /\ Cardinality({k \in 1..Len(logs) : logs[k].stage = "Network"}) = 2

\* C26: a harvest that is over has all 5 slots of the limiter free, whatever
\* its page requests ended in; and every harvest, unless it is ended by an
\* exception of its progress callback or by a cancellation, eventually
\* returns with every fetch 2..max_pages of its fan-out resolved.
C26_SlotsReleased ==
    /\ [](pc \in {"returned", "raised", "cancelled"} => sem = SemCapacity)
    /\ \/ <>(pc \in {"raised", "cancelled"})
       \/ <>(/\ pc = "returned"
             /\ sem = SemCapacity
             /\ FanningOut => \A i \in FanOut : fetch[i] = "done" /\ outcome[i] # "")

\* C26 witness: a harvest of seven pages (six fan-out fetches for five slots)
\* has returned with all slots free; page 7, queued at first, raised and
\* page 6 answered 404.
C26_Witness ==
    /\ pc = "returned"
    /\ maxPages = 7
    /\ sem = SemCapacity
    /\ outcome[7] = "exception"
    /\ outcome[6] = "404"
    /\ \A i \in FanOut : fetch[i] = "done"

\* C27: the returned records are in ascending page order, and the records of
\* each page are those its markup gives, in their order: the sequence is
\* determined by the page responses and the rate, whatever order the
\* fetches completed in.
C27_PageOrder ==
    result.returned =>
        /\ \A a, b \in 1..Len(result.records) :
             a < b => result.records[a].page <= result.records[b].page
        /\ \A i \in Pages :
             PageRecords(i, result.records) = parse_search_results(html_pages[i], rate)

\* C27 witness: a result with records of pages 2 and 4 after a fan-out in
\* which page 5 failed before page 3 did.
C27_Witness ==
    /\ result.returned
    /\ FromPage(2, result.records)
    /\ FromPage(4, result.records)
    /\ \E a, b \in 1..Len(result.log) :
        a < b /\ result.log[a] = LogNetErr(5) /\ result.log[b] = LogNetErr(3)

====
